---- MODULE Spec2Model ----
(***************************************************************************)
(* `wrangler pages functions build`: the Handler of pages/bundle.ts and    *)
(* the packager of api/pages/create-worker-bundle-contents.ts.             *)
(*                                                                         *)
(* One invocation of Handler is a sequence of steps separated by its       *)
(* awaits: the synchronous prefix (input checks, bindings, choice of       *)
(* builder), the return of the awaited builder, the packaging, the write.  *)
(* The file system persists from one invocation to the next.               *)
(***************************************************************************)
EXTENDS Integers, Sequences, FiniteSets, TLC

(* ---------------------------- bounds ----------------------------------- *)
\* number of additional modules a builder may report in a BundleResult
MaxModules == 1
\* number of calls of the packager in the packaging specification
MaxPkgCalls == 2

(* ------------------------- values and inputs --------------------------- *)
\* the JavaScript value `undefined` of an optional string argument
UNDEF == "<undefined>"

\* yargs option `directory` (no default): undefined, empty or a directory
Directories == {UNDEF, "", "dist"}

\* yargs option `functions-directory`, default "functions"
DefaultFunctionsDirectory == "functions"
FunctionsDirs == {DefaultFunctionsDirectory, "", "fns"}

\* yargs option `outfile`, default "_worker.js"
DefaultOutfile == "_worker.js"
Outfiles == {DefaultOutfile, "out.js"}

\* the name that replaces outfile when experimentalWorkerBundle is set
WorkerBundleOutfile == "_worker.bundle"

\* the outcomes of Math.random() in the temporary file names
Rand == {1, 2}

\* join(tmpdir(), `./bundledWorker-${Math.random()}.mjs`)
RawTmpPath(r) == IF r = 1 THEN "/tmp/bundledWorker-1.mjs" ELSE "/tmp/bundledWorker-2.mjs"

\* join(tmpdir(), `./functionsWorker-${Math.random()}.js`)
FunctionsTmpPath(r) == IF r = 1 THEN "/tmp/functionsWorker-1.js" ELSE "/tmp/functionsWorker-2.js"

\* resolvePath(directory, "_worker.js") for the directories of the model
ResolveWorkerScript(dir) == IF dir = "dist" THEN "dist/_worker.js" ELSE "_worker.js"

\* path.basename for the paths of the model
Basename(p) ==
  CASE p = "/tmp/bundledWorker-1.mjs" -> "bundledWorker-1.mjs"
    [] p = "/tmp/bundledWorker-2.mjs" -> "bundledWorker-2.mjs"
    [] p = "/tmp/functionsWorker-1.js" -> "functionsWorker-1.js"
    [] p = "/tmp/functionsWorker-2.js" -> "functionsWorker-2.js"
    [] p = "dist/_worker.js" -> "_worker.js"
    [] OTHER -> p

\* every path the model can touch
Paths == {"functions", "fns", "dist/_worker.js", "_worker.js", "out.js",
          WorkerBundleOutfile} \cup {RawTmpPath(r) : r \in Rand}
          \cup {FunctionsTmpPath(r) : r \in Rand}

\* a file system entry: absent, or present with its content (a sequence of
\* chunks; a directory is present with no content)
NoFile == [exists |-> FALSE, data |-> <<>>]
File(d) == [exists |-> TRUE, data |-> d]

\* node:fs existsSync
existsSync(disk, p) == p \in Paths /\ disk[p].exists

(* ------------------------------ JSON ----------------------------------- *)
\* A bindings blob is a string; the model keeps it as its sequence of JSON
\* tokens (punctuation, string literal, other literal). The empty string is
\* the empty sequence.
P(s) == [t |-> "punct", v |-> s]
S(s) == [t |-> "string", v |-> s]
L(s) == [t |-> "literal", v |-> s]

\* JSON values: null, numbers, strings, objects (members in insertion order)
JNull == [k |-> "null", s |-> "", m |-> <<>>]
JNum(s) == [k |-> "number", s |-> s, m |-> <<>>]
JStr(s) == [k |-> "string", s |-> s, m |-> <<>>]
JObj(m) == [k |-> "object", s |-> "", m |-> m]

\* the result of a parsing step: failure, or a value and the next position
ParseFail == [ok |-> FALSE, val |-> JNull, pos |-> 0]
ParseOk(v, p) == [ok |-> TRUE, val |-> v, pos |-> p]

\* an object member assignment: a repeated key keeps its first position and
\* takes the last value
SetMember(m, key, val) ==
  IF \E i \in 1..Len(m) : m[i].key = key
  THEN [i \in 1..Len(m) |-> IF m[i].key = key THEN [key |-> key, val |-> val] ELSE m[i]]
  ELSE Append(m, [key |-> key, val |-> val])

RECURSIVE ParseValue(_, _)
RECURSIVE ParseMembers(_, _, _)

\* JSON.parse, one value starting at token i
ParseValue(toks, i) ==
  IF i > Len(toks) THEN ParseFail
  ELSE LET tok == toks[i] IN
    CASE tok.t = "string" -> ParseOk(JStr(tok.v), i + 1)
      [] tok.t = "literal" ->
           IF tok.v = "null" THEN ParseOk(JNull, i + 1) ELSE ParseOk(JNum(tok.v), i + 1)
      [] tok = P("{") ->
           IF i + 1 <= Len(toks) /\ toks[i + 1] = P("}")
           THEN ParseOk(JObj(<<>>), i + 2)
           ELSE ParseMembers(toks, i + 1, <<>>)
      [] OTHER -> ParseFail

\* JSON.parse, the members of an object: key ":" value, then "," or "}"
ParseMembers(toks, i, acc) ==
  IF i + 1 > Len(toks) \/ toks[i].t # "string" \/ toks[i + 1] # P(":") THEN ParseFail
  ELSE LET r == ParseValue(toks, i + 2) IN
    IF ~r.ok \/ r.pos > Len(toks) THEN ParseFail
    ELSE LET acc2 == SetMember(acc, toks[i].v, r.val) IN
      CASE toks[r.pos] = P("}") -> ParseOk(JObj(acc2), r.pos + 1)
        [] toks[r.pos] = P(",") -> ParseMembers(toks, r.pos + 1, acc2)
        [] OTHER -> ParseFail

\* JSON.parse(text): throws (ok = FALSE) unless the text is exactly one value
JSONParse(toks) ==
  LET r == ParseValue(toks, 1) IN
  IF r.ok /\ r.pos = Len(toks) + 1 THEN r ELSE ParseFail

\* `decodedBindings?.d1_databases`: the member of an object, or undefined
HasMember(v, key) == v.k = "object" /\ \E i \in 1..Len(v.m) : v.m[i].key = key
Member(v, key) == (CHOOSE e \in {v.m[i] : i \in 1..Len(v.m)} : e.key = key).val

\* JavaScript truthiness of a JSON value (the left operand of `|| {}`)
Truthy(v) ==
  CASE v.k = "null" -> FALSE
    [] v.k = "number" -> v.s # "0"
    [] v.k = "string" -> v.s # ""
    [] OTHER -> TRUE

\* Object.keys of an object (insertion order); a number has no own keys
\* (the blobs of the model hold no string, array or boolean values)
ObjectKeys(v) ==
  CASE v.k = "object" -> [i \in 1..Len(v.m) |-> v.m[i].key]
    [] v.k = "number" -> <<>>
    [] v.k = "null" -> <<>>

\* Object.keys(decodedBindings?.d1_databases || {})
D1Keys(decoded) ==
  IF HasMember(decoded, "d1_databases") /\ Truthy(Member(decoded, "d1_databases"))
  THEN ObjectKeys(Member(decoded, "d1_databases"))
  ELSE <<>>

(* --------------------------- bindings blobs ---------------------------- *)
RECURSIVE MemberTokens(_)
\* the text `"k1":{},"k2":{}` of the members named by a sequence of keys
MemberTokens(keys) ==
  IF keys = <<>> THEN <<>>
  ELSE <<S(Head(keys)), P(":"), P("{"), P("}")>>
       \o (IF Len(keys) > 1 THEN <<P(",")>> ELSE <<>>)
       \o MemberTokens(Tail(keys))

\* the text `{"d1_databases":{"k1":{},"k2":{}}}`
D1Blob(keys) ==
  <<P("{"), S("d1_databases"), P(":"), P("{")>> \o MemberTokens(keys) \o <<P("}"), P("}")>>

\* the key sequences of the database bindings in the model's blobs
KeySeqs == {<<>>, <<"DB1">>, <<"DB1", "DB2">>, <<"DB2", "DB1">>}

\* well-formed blobs without a d1_databases member: {}, null, 7,
\* {"kv_namespaces":{"KV":{}}}
NoCategoryBlobs ==
  { <<P("{"), P("}")>>,
    <<L("null")>>,
    <<L("7")>>,
    <<P("{"), S("kv_namespaces"), P(":"), P("{"), S("KV"), P(":"), P("{"), P("}"), P("}"), P("}")>> }

\* well-formed blobs whose d1_databases member is not an object:
\* {"d1_databases":null}, {"d1_databases":0}
NonObjectCategoryBlobs ==
  { <<P("{"), S("d1_databases"), P(":"), L("null"), P("}")>>,
    <<P("{"), S("d1_databases"), P(":"), L("0"), P("}")>> }

\* blobs JSON.parse rejects: `{`, `{"d1_databases":{"DB1":{}}` (cut short),
\* `{"d1_databases":{"DB1":{},}}` (trailing comma), `{}}` (trailing text)
MalformedBlobs ==
  { <<P("{")>>,
    <<P("{"), S("d1_databases"), P(":"), P("{"), S("DB1"), P(":"), P("{"), P("}"), P("}")>>,
    <<P("{"), S("d1_databases"), P(":"), P("{"), S("DB1"), P(":"), P("{"), P("}"), P(","), P("}"), P("}")>>,
    <<P("{"), P("}"), P("}")>> }

\* the empty string
EmptyBlob == <<>>

\* yargs option `bindings` (a string, no default): not given, or a text
NoBindings == [given |-> FALSE, text |-> <<>>]
Bindings(text) == [given |-> TRUE, text |-> text]
BindingsInputs ==
  {NoBindings} \cup {Bindings(t) : t \in {EmptyBlob} \cup MalformedBlobs
       \cup NoCategoryBlobs \cup NonObjectCategoryBlobs \cup {D1Blob(ks) : ks \in KeySeqs}}

\* the arguments of one invocation (PagesBuildArgs), the options that the
\* Handler only hands through to the builders left out
Args ==
  [directory : Directories, functionsDirectory : FunctionsDirs, outfile : Outfiles,
   bindings : BindingsInputs, experimentalWorkerBundle : BOOLEAN]

(* ------------------------------ errors --------------------------------- *)
\* a thrown value: its class, its message (with the argument the message is
\* built from) and, for a FatalError, the optional exit code
Err(type, msg, arg, hasCode, code) ==
  [type |-> type, msg |-> msg, arg |-> arg, hasCode |-> hasCode, code |-> code]
NoError == Err("none", "", "", FALSE, 0)

\* the exit code of FunctionsNoRoutesError's translation (pages/errors.ts)
EXIT_CODE_FUNCTIONS_NO_ROUTES_ERROR == 156

\* the exit code of the bindings FatalError
BindingsExitCode == 1

\* new FatalError(`Could not find a static assets directory or ...`)
UserInputError(functionsDirectory) ==
  Err("FatalError", "Could not find a static assets directory or the Functions directory",
      functionsDirectory, FALSE, 0)

\* new FatalError("Could not parse a valid set of 'bindings'.", 1)
BindingParseError ==
  Err("FatalError", "Could not parse a valid set of 'bindings'.", "", TRUE, BindingsExitCode)

\* new FatalError(getFunctionsNoRoutesWarning(functionsDirectory),
\*                EXIT_CODE_FUNCTIONS_NO_ROUTES_ERROR)
NoRoutesFatalError(functionsDirectory) ==
  Err("FatalError", "getFunctionsNoRoutesWarning", functionsDirectory, TRUE,
      EXIT_CODE_FUNCTIONS_NO_ROUTES_ERROR)

\* what a builder can throw: FunctionsNoRoutesError, an Error of the
\* bundler, a FatalError of its own
FunctionsNoRoutesError == Err("FunctionsNoRoutesError", "no routes", "", FALSE, 0)
BuilderErrors ==
  { FunctionsNoRoutesError,
    Err("Error", "Build failed", "", FALSE, 0),
    Err("FatalError", "builder's own fatal error", "", TRUE, 1) }

\* reading a property of undefined
TypeError == Err("TypeError", "Cannot read properties of undefined", "resolvedEntryPointPath", FALSE, 0)
\* readFileSync of a missing file
ENOENT(path) == Err("Error", "ENOENT", path, FALSE, 0)
\* what createWorkerUploadForm and Response.blob() can throw
PackagerErrors == { Err("Error", "upload form failed", "", FALSE, 0) }

(* ----------------------- the steps of the Handler ---------------------- *)
\* a JavaScript string is falsy when undefined or empty
Falsy(str) == str = UNDEF \/ str = ""

\* the existence check without its negation
MissingInput_ExistsNotNegated(a, disk) ==
  /\ Falsy(a.directory)
  /\ a.functionsDirectory = DefaultFunctionsDirectory
  /\ existsSync(disk, a.functionsDirectory)

\* the condition of the first throw: no directory, the default functions
\* directory, and it does not exist
MissingInput(a, disk) ==
  /\ Falsy(a.directory)
  /\ a.functionsDirectory = DefaultFunctionsDirectory
  /\ ~existsSync(disk, a.functionsDirectory)

\* d1Databases: string[] | undefined
NoD1 == [set |-> FALSE, keys |-> <<>>]
D1(keys) == [set |-> TRUE, keys |-> keys]

\* d1Databases initialised to an empty array instead of undefined
ExtractBindings_EmptyWhenAbsent(bindings) ==
  IF ~bindings.given \/ bindings.text = EmptyBlob
  THEN [threw |-> FALSE, d1 |-> D1(<<>>)]
  ELSE LET r == JSONParse(bindings.text) IN
    IF r.ok THEN [threw |-> FALSE, d1 |-> D1(D1Keys(r.val))]
    ELSE [threw |-> TRUE, d1 |-> NoD1]

\* a catch that falls back to no database bindings instead of throwing
ExtractBindings_SwallowParseError(bindings) ==
  IF ~bindings.given \/ bindings.text = EmptyBlob
  THEN [threw |-> FALSE, d1 |-> NoD1]
  ELSE LET r == JSONParse(bindings.text) IN
    IF r.ok THEN [threw |-> FALSE, d1 |-> D1(D1Keys(r.val))]
    ELSE [threw |-> FALSE, d1 |-> D1(<<>>)]

\* `if (bindings) { try { ... } catch { throw ... } }`: whether it throws,
\* and d1Databases afterwards
ExtractBindings(bindings) ==
  IF ~bindings.given \/ bindings.text = EmptyBlob
  THEN [threw |-> FALSE, d1 |-> NoD1]
  ELSE LET r == JSONParse(bindings.text) IN
    IF r.ok THEN [threw |-> FALSE, d1 |-> D1(D1Keys(r.val))]
    ELSE [threw |-> TRUE, d1 |-> NoD1]

\* const workerScriptPath = directory && resolvePath(directory, "_worker.js")
WorkerScriptPath(a) ==
  IF Falsy(a.directory) THEN a.directory ELSE ResolveWorkerScript(a.directory)

\* outfile = experimentalWorkerBundle ? "_worker.bundle" : outfile
Outfile(a) == IF a.experimentalWorkerBundle THEN WorkerBundleOutfile ELSE a.outfile

\* the two branches in the other order: Functions before _worker.js
SelectBuilder_FunctionsFirst(a) ==
  IF ~Falsy(a.functionsDirectory) THEN "buildFunctions"
  ELSE IF ~Falsy(WorkerScriptPath(a)) THEN "buildRawWorker"
  ELSE "none"

\* `if (workerScriptPath) ... else if (functionsDirectory) ...`
SelectBuilder(a) ==
  IF ~Falsy(WorkerScriptPath(a)) THEN "buildRawWorker"
  ELSE IF ~Falsy(a.functionsDirectory) THEN "buildFunctions"
  ELSE "none"

\* the arguments of the builder call
NoCall == [builder |-> "none", entry |-> "", outfile |-> "", d1 |-> NoD1]
RawWorkerCall(a, d1, r) ==
  [builder |-> "buildRawWorker", entry |-> WorkerScriptPath(a), outfile |-> RawTmpPath(r), d1 |-> d1]
FunctionsCall(a, d1, r) ==
  [builder |-> "buildFunctions", entry |-> a.functionsDirectory,
   outfile |-> IF a.experimentalWorkerBundle THEN FunctionsTmpPath(r) ELSE Outfile(a),
   d1 |-> d1]

\* a catch that turns every error of the builder into the no-routes FatalError
TranslateBuilderError_WrapAll(e, functionsDirectory) ==
  NoRoutesFatalError(functionsDirectory)

\* the catch around buildFunctions: what the Handler throws for e
TranslateBuilderError(e, functionsDirectory) ==
  IF e.type = "FunctionsNoRoutesError" THEN NoRoutesFatalError(functionsDirectory) ELSE e

\* packaging and writing whatever the flag says
ShouldPackage_Always(a) == TRUE

\* `if (experimentalWorkerBundle)`: whether the Handler packages and writes
ShouldPackage(a) == a.experimentalWorkerBundle

\* a write that does not truncate: data over the start of the old content
writeFileSync_NoTruncate(disk, path, data) ==
  [disk EXCEPT ![path] =
     File(data \o SubSeq(disk[path].data, Len(data) + 1, Len(disk[path].data)))]

\* node:fs writeFileSync(path, data): the file holds exactly data
writeFileSync(disk, path, data) == [disk EXCEPT ![path] = File(data)]

(* ---------------------------- the packager ----------------------------- *)
\* BundleResult | undefined
NoBundle == [defined |-> FALSE, resolvedEntryPointPath |-> "", modules |-> <<>>, bundleType |-> ""]
BundleResult(path, modules, bundleType) ==
  [defined |-> TRUE, resolvedEntryPointPath |-> path, modules |-> modules, bundleType |-> bundleType]

\* readFileSync(path, { encoding: "utf-8" })
readFileSync(disk, path) == disk[path].data

\* the main module's content read from the default outfile instead of the
\* bundle's entry point
WorkerInit_WrongFile(workerBundle, disk) ==
  LET mainModule ==
        [name |-> Basename(workerBundle.resolvedEntryPointPath),
         content |-> readFileSync(disk, DefaultOutfile),
         type |-> IF workerBundle.bundleType = "" THEN "esm" ELSE workerBundle.bundleType]
  IN [name |-> mainModule.name, main |-> mainModule, modules |-> workerBundle.modules,
      bindings |-> {}, migrations |-> UNDEF, compatibility_date |-> UNDEF,
      compatibility_flags |-> UNDEF, usage_model |-> UNDEF]

\* the CfWorkerInit of createWorkerBundleFormData: the main module is named
\* after the entry point and holds the entry point's content on disk; the
\* modules are the bundle's; every binding and setting is undefined
WorkerInit(workerBundle, disk) ==
  LET mainModule ==
        [name |-> Basename(workerBundle.resolvedEntryPointPath),
         content |-> readFileSync(disk, workerBundle.resolvedEntryPointPath),
         type |-> IF workerBundle.bundleType = "" THEN "esm" ELSE workerBundle.bundleType]
  IN [name |-> mainModule.name, main |-> mainModule, modules |-> workerBundle.modules,
      bindings |-> {}, migrations |-> UNDEF, compatibility_date |-> UNDEF,
      compatibility_flags |-> UNDEF, usage_model |-> UNDEF]

\* a part of a form: its name, its type and its body
Part(name, type, body) == [name |-> name, type |-> type, body |-> body]

\* createWorkerUploadForm(worker): the metadata part, then one part for the
\* main module and one for each module, in the order of the modules
createWorkerUploadForm(worker) ==
  <<Part("metadata", "application/json", <<"main_module", worker.main.name, worker.main.type>>),
    Part(worker.main.name, worker.main.type, worker.main.content)>>
  \o [i \in 1..Len(worker.modules) |->
        Part(worker.modules[i].name, worker.modules[i].type, worker.modules[i].content)]

\* createWorkerBundleFormData(workerBundle)
createWorkerBundleFormData(workerBundle, disk) ==
  createWorkerUploadForm(WorkerInit(workerBundle, disk))

\* the multipart boundaries `new Response(formData)` can generate
Boundaries == {"----formdata-undici-1", "----formdata-undici-2"}

RECURSIVE Multipart(_, _)
\* the multipart/form-data encoding of the parts: each part framed by the
\* boundary, the closing boundary at the end
Multipart(form, boundary) ==
  IF form = <<>> THEN <<boundary, "--">>
  ELSE <<boundary, Head(form).name, Head(form).type>> \o Head(form).body
       \o Multipart(Tail(form), boundary)

\* await new Response(formData).blob(): the Blob and the boundary of its type
ResponseBlob(form, boundary) == [boundary |-> boundary, bytes |-> Multipart(form, boundary)]
NoBlob == [boundary |-> "", bytes |-> <<>>]

\* createUploadWorkerBundleContents(workerBundle), with the boundary that the
\* Response generates: what it throws, or the Blob it resolves to
createUploadWorkerBundleContents(workerBundle, disk, boundary) ==
  IF ~workerBundle.defined THEN [threw |-> TRUE, error |-> TypeError, blob |-> NoBlob]
  ELSE IF ~existsSync(disk, workerBundle.resolvedEntryPointPath)
  THEN [threw |-> TRUE, error |-> ENOENT(workerBundle.resolvedEntryPointPath), blob |-> NoBlob]
  ELSE [threw |-> FALSE, error |-> NoError,
        blob |-> ResponseBlob(createWorkerBundleFormData(workerBundle, disk), boundary)]

(* -------------------------- the builders' results ---------------------- *)
\* compiled entry point contents of different lengths
Contents == {<<"code-A">>, <<"code-B1", "code-B2">>}

\* the modules a bundle can hold besides its entry point
ModuleList ==
  <<[name |-> "a.wasm", type |-> "compiled-wasm", content |-> <<"wasm-A">>],
    [name |-> "b.txt", type |-> "text", content |-> <<"text-B">>],
    [name |-> "c.bin", type |-> "buffer", content |-> <<"data-C">>]>>
ModuleSeqs == {SubSeq(ModuleList, 1, n) : n \in 0..MaxModules}

\* BundleResult.bundleType: "esm" | "commonjs" | undefined ("")
BundleTypes == {"commonjs", ""}

\* what the output path can hold before the invocation: nothing, or the
\* payload of an earlier invocation, longer than any of this one
EarlierPayload ==
  ResponseBlob(createWorkerUploadForm(
    [name |-> "functionsWorker-0.js",
     main |-> [name |-> "functionsWorker-0.js", content |-> <<"old-1", "old-2", "old-3">>, type |-> "esm"],
     modules |-> SubSeq(ModuleList \o ModuleList, 1, MaxModules + 1)]), "----formdata-undici-0").bytes

\* the file systems an invocation can start from
InitialDisks ==
  { [p \in Paths |->
       CASE p = "functions" -> IF fn THEN File(<<>>) ELSE NoFile
         [] p = "fns" -> IF fns THEN File(<<>>) ELSE NoFile
         [] p = "dist/_worker.js" -> IF ws THEN File(<<"worker source">>) ELSE NoFile
         [] p = WorkerBundleOutfile -> IF old THEN File(EarlierPayload) ELSE NoFile
         [] p = "out.js" -> IF old THEN File(<<"old-out-1", "old-out-2", "old-out-3">>) ELSE NoFile
         [] OTHER -> NoFile]
    : fn \in BOOLEAN, fns \in BOOLEAN, ws \in BOOLEAN, old \in BOOLEAN }

(* ------------------------------- state --------------------------------- *)
VARIABLES
  args,         \* the arguments of the invocation
  disk,         \* the file system
  pc,           \* where the Handler is
  d1Databases,  \* the Handler's d1Databases
  outfile,      \* the Handler's outfile
  call,         \* the builder call the Handler awaits or has awaited
  rejection,    \* what the awaited builder has rejected with
  bundle,       \* the Handler's bundle
  payload,      \* the Blob of the packager
  error,        \* what the invocation has thrown to its caller
  events,       \* the calls of builders, packager and writer, in order
  writes,       \* the writeFileSync calls of the Handler
  blobs,        \* packaging specification: the Blobs of the packager's calls
  rebuilt       \* packaging specification: the entry point has been rewritten

vars == <<args, disk, pc, d1Databases, outfile, call, rejection, bundle, payload, error,
          events, writes, blobs, rebuilt>>

pkgVars == <<blobs, rebuilt>>

Init ==
  /\ args \in Args
  /\ disk \in InitialDisks
  /\ pc = "start"
  /\ d1Databases = NoD1
  /\ outfile = args.outfile
  /\ call = NoCall
  /\ rejection = NoError
  /\ bundle = NoBundle
  /\ payload = NoBlob
  /\ error = NoError
  /\ events = <<>>
  /\ writes = <<>>
  /\ blobs = <<>>
  /\ rebuilt = FALSE

\* the builder's own output: the compiled entry point at the outfile of the call
BuilderOutput(d, c, content) == [d EXCEPT ![c.outfile] = File(content)]

\* a builder compiles only an entry script or a functions directory that exists
BuilderCanResolve(d, c) == existsSync(d, c.entry)

\* the Handler throws e
Throw(e) ==
  /\ pc' = "failed"
  /\ error' = e

\* where the Handler goes once the builder branch is over
AfterBuild(a) == IF ShouldPackage(a) THEN "packaging" ELSE "done"

\* Handler, up to its first await: the missing-input check, the bindings,
\* the choice and the call of the builder
HandlerStart(r) ==
  /\ pc = "start"
  /\ UNCHANGED <<args, disk, rejection, bundle, payload, writes, pkgVars>>
  /\ IF MissingInput(args, disk)
     THEN /\ Throw(UserInputError(args.functionsDirectory))
          /\ UNCHANGED <<d1Databases, outfile, call, events>>
     ELSE LET ext == ExtractBindings(args.bindings) IN
       IF ext.threw
       THEN /\ Throw(BindingParseError)
            /\ UNCHANGED <<d1Databases, outfile, call, events>>
       ELSE /\ d1Databases' = ext.d1
            /\ outfile' = Outfile(args)
            /\ error' = error
            /\ CASE SelectBuilder(args) = "buildRawWorker" ->
                      /\ call' = RawWorkerCall(args, ext.d1, r)
                      /\ events' = Append(events, "buildRawWorker")
                      /\ pc' = "building"
                 [] SelectBuilder(args) = "buildFunctions" ->
                      /\ call' = FunctionsCall(args, ext.d1, r)
                      /\ events' = Append(events, "buildFunctions")
                      /\ pc' = "building"
                 [] OTHER ->
                      /\ call' = NoCall
                      /\ events' = events
                      /\ pc' = AfterBuild(args)

\* the awaited builder resolves: it has written the compiled entry point to
\* the outfile it was given and returns the BundleResult
BuilderResolves(content, modules, bundleType) ==
  /\ pc = "building"
  /\ BuilderCanResolve(disk, call)
  /\ disk' = BuilderOutput(disk, call, content)
  /\ bundle' = BundleResult(call.outfile, modules, bundleType)
  /\ events' = Append(events, "built")
  /\ pc' = AfterBuild(args)
  /\ UNCHANGED <<args, d1Databases, outfile, call, rejection, payload, error, writes, pkgVars>>

\* the awaited builder rejects: buildFunctions is inside the try, whose catch
\* translates FunctionsNoRoutesError; buildRawWorker is not
BuilderRejects(e) ==
  /\ pc = "building"
  /\ rejection' = e
  /\ Throw(IF call.builder = "buildFunctions"
           THEN TranslateBuilderError(e, args.functionsDirectory) ELSE e)
  /\ UNCHANGED <<args, disk, d1Databases, outfile, call, bundle, payload, events, writes, pkgVars>>

\* await createUploadWorkerBundleContents(bundle as BundleResult)
Package(boundary) ==
  /\ pc = "packaging"
  /\ LET res == createUploadWorkerBundleContents(bundle, disk, boundary) IN
       IF res.threw
       THEN /\ Throw(res.error)
            /\ payload' = payload
            /\ events' = Append(events, "package")
       ELSE /\ payload' = res.blob
            /\ events' = events \o <<"package", "packaged">>
            /\ pc' = "packaged"
            /\ error' = error
  /\ UNCHANGED <<args, disk, d1Databases, outfile, call, rejection, bundle, writes, pkgVars>>

\* createWorkerUploadForm or the Response rejects
PackagerRejects(e) ==
  /\ pc = "packaging"
  /\ bundle.defined
  /\ Throw(e)
  /\ events' = Append(events, "package")
  /\ UNCHANGED <<args, disk, d1Databases, outfile, call, rejection, bundle, payload, writes, pkgVars>>

\* writeFileSync(outfile, Buffer.from(await workerBundleContents.arrayBuffer()))
Write ==
  /\ pc = "packaged"
  /\ disk' = writeFileSync(disk, outfile, payload.bytes)
  /\ writes' = Append(writes, [path |-> outfile, data |-> payload.bytes, replaced |-> disk[outfile]])
  /\ events' = Append(events, "writeFileSync")
  /\ pc' = "done"
  /\ UNCHANGED <<args, d1Databases, outfile, call, rejection, bundle, payload, error, pkgVars>>

Next ==
  \/ \E r \in Rand : HandlerStart(r)
  \/ \E c \in Contents, ms \in ModuleSeqs, t \in BundleTypes : BuilderResolves(c, ms, t)
  \/ \E e \in BuilderErrors : BuilderRejects(e)
  \/ \E b \in Boundaries : Package(b)
  \/ \E e \in PackagerErrors : PackagerRejects(e)
  \/ Write

Spec == Init /\ [][Next]_vars

(* --------------------- the packager on its own ------------------------- *)
\* the entry points and the other file of the packaging specification
PkgEntryPaths == {RawTmpPath(1), FunctionsTmpPath(1)}
PkgPaths == PkgEntryPaths \cup {DefaultOutfile}

InitPkg ==
  /\ args = [directory |-> UNDEF, functionsDirectory |-> DefaultFunctionsDirectory,
             outfile |-> DefaultOutfile, bindings |-> NoBindings,
             experimentalWorkerBundle |-> TRUE]
  /\ \E c \in Contents, o \in Contents :
       disk = [p \in Paths |-> IF p \in PkgEntryPaths THEN File(c)
                               ELSE IF p = DefaultOutfile THEN File(o) ELSE NoFile]
  /\ \E p \in PkgEntryPaths, ms \in ModuleSeqs, t \in BundleTypes \cup {"esm"} :
       bundle = BundleResult(p, ms, t)
  /\ pc = "packager"
  /\ d1Databases = NoD1
  /\ outfile = WorkerBundleOutfile
  /\ call = NoCall
  /\ rejection = NoError
  /\ payload = NoBlob
  /\ error = NoError
  /\ events = <<>>
  /\ writes = <<>>
  /\ blobs = <<>>
  /\ rebuilt = FALSE

handlerVars == <<args, pc, d1Databases, outfile, call, rejection, bundle, payload, error, events, writes>>

\* one more call of createUploadWorkerBundleContents on the same BundleResult
PkgCall(boundary) ==
  /\ pc = "packager"
  /\ Len(blobs) < MaxPkgCalls
  /\ LET res == createUploadWorkerBundleContents(bundle, disk, boundary) IN
       /\ ~res.threw
       /\ blobs' = Append(blobs, res.blob)
  /\ UNCHANGED <<handlerVars, disk, rebuilt>>

\* something outside the packager rewrites a file; a rewrite of the entry
\* point with other content after the first call is a rebuild
DiskChange(p, c) ==
  /\ pc = "packager"
  /\ disk[p].data # c
  /\ disk' = [disk EXCEPT ![p] = File(c)]
  /\ rebuilt' = (rebuilt \/ (blobs # <<>> /\ p = bundle.resolvedEntryPointPath))
  /\ UNCHANGED <<handlerVars, blobs>>

NextPkg ==
  \/ \E b \in Boundaries : PkgCall(b)
  \/ \E p \in PkgPaths, c \in Contents : DiskChange(p, c)

SpecPkg == InitPkg /\ [][NextPkg]_vars

(* ------------------------------ properties ----------------------------- *)
Range(seq) == {seq[i] : i \in 1..Len(seq)}

\* a directory is given and holds a _worker.js
RawScriptExists ==
  /\ args.directory \notin {UNDEF, ""}
  /\ disk[ResolveWorkerScript(args.directory)].exists

\* no directory, the default functions directory, and it does not exist
MissingInputCase ==
  /\ args.directory \in {UNDEF, ""}
  /\ args.functionsDirectory = "functions"
  /\ ~disk["functions"].exists

\* the invocation is past its input checks and its binding extraction
ModeResolved == pc # "start" /\ ~(pc = "failed" /\ events = <<>>)

\* how many builder calls the invocation has made
BuilderCalls == Cardinality({i \in 1..Len(events) : events[i] \in {"buildRawWorker", "buildFunctions"}})

\* C1: whenever a _worker.js exists in the given directory, the Functions
\* builder is never invoked, and once the invocation is past its input checks
\* and bindings the builder it has invoked is the raw-worker builder, on that
\* _worker.js, also when the functions directory exists.
C1_RawWorkerPrecedence ==
  RawScriptExists =>
    /\ "buildFunctions" \notin Range(events)
    /\ ModeResolved =>
         /\ events[1] = "buildRawWorker"
         /\ BuilderCalls = 1
         /\ call.builder = "buildRawWorker"
         /\ call.entry = ResolveWorkerScript(args.directory)

C1_Witness ==
  /\ RawScriptExists
  /\ args.functionsDirectory = "functions"
  /\ disk["functions"].exists
  /\ pc = "done"
  /\ events[1] = "buildRawWorker"

\* C2: when the awaited builder has rejected, the invocation has failed; if
\* it was the Functions builder rejecting with FunctionsNoRoutesError, the
\* caller gets a FatalError with the no-routes exit code, which differs from
\* the codes of the other fatal errors, and with the no-routes warning for the
\* functions directory; otherwise the caller gets the builder's error itself;
\* and the builder has been called exactly once.
C2_ErrorTranslation ==
  rejection # NoError =>
    /\ pc = "failed"
    /\ BuilderCalls = 1
    /\ IF call.builder = "buildFunctions" /\ rejection.type = "FunctionsNoRoutesError"
       THEN /\ error.type = "FatalError"
            /\ error.hasCode /\ error.code = EXIT_CODE_FUNCTIONS_NO_ROUTES_ERROR
            /\ error.code # BindingParseError.code
            /\ ~UserInputError(args.functionsDirectory).hasCode
            /\ error.msg = "getFunctionsNoRoutesWarning"
            /\ error.arg = args.functionsDirectory
       ELSE error = rejection

C2_Witness ==
  /\ pc = "failed"
  /\ call.builder = "buildFunctions"
  /\ rejection.type = "FunctionsNoRoutesError"
  /\ error.code = EXIT_CODE_FUNCTIONS_NO_ROUTES_ERROR

\* C3: the Handler calls writeFileSync at most once, only with
\* experimentalWorkerBundle set and only after the builder it called has
\* resolved and the packager has returned its Blob, in that order; an
\* invocation that fails, or that runs without the flag, has written nothing.
C3_WriteOnlyAfterPackaging ==
  /\ writes # <<>> =>
       /\ args.experimentalWorkerBundle
       /\ Len(writes) = 1
       /\ bundle.defined
       /\ Len(events) = 5
       /\ events[1] \in {"buildRawWorker", "buildFunctions"}
       /\ SubSeq(events, 2, 5) = <<"built", "package", "packaged", "writeFileSync">>
       /\ writes[1].data = payload.bytes
  /\ pc = "failed" => writes = <<>> /\ "writeFileSync" \notin Range(events)
  /\ ~args.experimentalWorkerBundle =>
       writes = <<>> /\ Range(events) \cap {"package", "packaged", "writeFileSync"} = {}

C3_Witness ==
  /\ pc = "done"
  /\ Len(writes) = 1
  /\ events = <<"buildFunctions", "built", "package", "packaged", "writeFileSync">>

C5_MissingInputFailure ==
  (MissingInputCase /\ pc # "start") =>
    /\ pc = "failed"
    /\ error.type = "FatalError"
    /\ error.msg = "Could not find a static assets directory or the Functions directory"
    /\ ~error.hasCode
    /\ events = <<>>
    /\ call = NoCall
    /\ writes = <<>>

C5_Witness ==
  /\ MissingInputCase
  /\ pc = "failed"
  /\ args.experimentalWorkerBundle
  /\ args.bindings = NoBindings

\* the FatalError of the bindings reached the caller and nothing was built
BindingFailure ==
  /\ pc = "failed"
  /\ error.type = "FatalError"
  /\ error.msg = "Could not parse a valid set of 'bindings'."
  /\ error.hasCode /\ error.code = 1
  /\ d1Databases = NoD1
  /\ events = <<>>
  /\ call = NoCall

\* C6 as stated: every invocation with a bindings blob that is given and is
\* not valid JSON fails with the bindings FatalError.
C6_Original ==
  (args.bindings.given /\ args.bindings.text \in MalformedBlobs \cup {EmptyBlob} /\ pc # "start")
    => BindingFailure

\* C6 amended: every invocation that passes the missing-input check with a
\* non-empty bindings blob that is not valid JSON fails with the bindings
\* FatalError, exit code 1, with d1Databases still undefined and no builder
\* called.
C6_BindingParseFailure ==
  (args.bindings.given /\ args.bindings.text \in MalformedBlobs /\ ~MissingInputCase /\ pc # "start")
    => BindingFailure

C6_Witness ==
  /\ args.bindings = Bindings(<<P("{")>>)
  /\ ~MissingInputCase
  /\ BindingFailure

\* C7: the d1 databases the builder is called with are undefined when no
\* bindings blob is given, exactly the keys of the blob's d1_databases
\* object, in their order, when it has one, and an empty array when the blob
\* parses but has no d1_databases member (or one that is null or 0).
C7_BindingExtraction ==
  call # NoCall =>
    /\ ~args.bindings.given => (~call.d1.set /\ call.d1 = d1Databases)
    /\ \A ks \in KeySeqs :
         args.bindings = Bindings(D1Blob(ks)) => (call.d1.set /\ call.d1.keys = ks)
    /\ (args.bindings.given /\ args.bindings.text \in NoCategoryBlobs \cup NonObjectCategoryBlobs) =>
         (call.d1.set /\ call.d1.keys = <<>>)

C7_Witness ==
  /\ pc = "building"
  /\ args.bindings = Bindings(D1Blob(<<"DB1", "DB2">>))
  /\ call.d1 = D1(<<"DB1", "DB2">>)

C7_WitnessAbsent ==
  /\ pc = "building"
  /\ ~args.bindings.given
  /\ ~call.d1.set

\* the bytes of a Blob with its boundary lines replaced by a fixed mark
Unframed(blob) ==
  [i \in 1..Len(blob.bytes) |-> IF blob.bytes[i] = blob.boundary THEN "<boundary>" ELSE blob.bytes[i]]

\* C8 as stated: two packagings of the same BundleResult with the entry
\* point unchanged on disk give the same bytes.
C8_Original ==
  ~rebuilt => \A i \in 1..Len(blobs), j \in 1..Len(blobs) : blobs[i].bytes = blobs[j].bytes

\* C8 amended: two packagings of the same BundleResult with the entry point
\* unchanged on disk give the same parts (names, types, contents, order) and
\* the same metadata; the bytes differ at most in the multipart boundary,
\* and are the same when the boundary is.
C8_SamePartsUpToBoundary ==
  ~rebuilt =>
    \A i \in 1..Len(blobs), j \in 1..Len(blobs) :
      /\ Unframed(blobs[i]) = Unframed(blobs[j])
      /\ blobs[i].boundary = blobs[j].boundary => blobs[i].bytes = blobs[j].bytes

C8_Witness ==
  /\ ~rebuilt
  /\ Len(blobs) >= 2
  /\ blobs[1].boundary # blobs[2].boundary
  /\ disk[DefaultOutfile].data # disk[bundle.resolvedEntryPointPath].data

\* C9 as stated: with no _worker.js at the directory (also when a directory
\* is given and holds none), outside the missing-input case, and with a
\* functions directory given, the builder invoked is the Functions builder
\* and never the raw-worker builder.
C9_Claim ==
  (~RawScriptExists /\ ~MissingInputCase /\ args.functionsDirectory # "" /\ ModeResolved) =>
    /\ events[1] = "buildFunctions"
    /\ "buildRawWorker" \notin Range(events)

\* C10 as stated: whenever the packager is called, one builder has been
\* called and has resolved before, and the bundle is defined.
C10_Claim ==
  (pc = "packaging" \/ "package" \in Range(events)) =>
    /\ bundle.defined
    /\ BuilderCalls = 1
    /\ Len(events) >= 2 /\ events[2] = "built"

====
